---- MODULE Spec2Model ----
(***************************************************************************)
(* Host/guest boundary of the wasmtime API crate:                          *)
(*   crates/api/src/callable.rs    WasmtimeFn::call                        *)
(*   crates/api/src/externals.rs   Global, Table, Memory                   *)
(*   crates/fuzzing/src/oracles/dummy.rs   dummy_value                     *)
(* Rust's Result/Option values are records with a "tag" field.  A panic    *)
(* (unimplemented!, unwrap, expect) is the result tagged "Panic"; once an  *)
(* operation has panicked no further operation of that program runs.       *)
(***************************************************************************)
EXTENDS Integers, Sequences, FiniteSets

VARIABLES
    signature,  \* the registered signature of the wrapped export (callable.rs:119-124)
    host_params,  \* the host's argument list for its next call
    host_results, \* the host's result buffer, handed to call as &mut [Val]
    call,       \* the call that has just returned: inputs, return value, scratch buffer
    prev,       \* how the call before that one returned
    marshal,    \* a value being written to and read back from one scratch slot
    globals,    \* the Global objects that exist, by handle
    gop,        \* the last operation on a Global and what it returned
    tables,     \* the Table objects that exist, by handle
    top,        \* the last operation on a Table and what it returned
    memories,   \* the Memory objects that exist, by handle
    mop         \* the last operation on a Memory and what it returned

vars ==
    <<signature, host_params, host_results, call, prev, marshal, globals, gop, tables, top,
      memories, mop>>

(***************************************************************************)
(* Bounds of the model.                                                    *)
(***************************************************************************)
MaxParams == 1      \* longest parameter list passed to / declared by a function
MaxResults == 2     \* longest result list
MaxBits == 1        \* raw payloads range over 0..MaxBits
NumStores == 2      \* distinct Store objects
MaxTableSize == 3   \* largest size the table allocator grants
MaxIndex == 4       \* largest index passed to a Table operation
MaxDelta == 2       \* largest delta passed to Table::grow
MaxMin == 2         \* largest declared initial size of a table or memory
MaxPages == 3       \* most pages the memory allocator grants

(***************************************************************************)
(* Option, Result                                                          *)
(***************************************************************************)
None == [tag |-> "None"]
Some(x) == [tag |-> "Some", val |-> x]
Ok(x) == [tag |-> "Ok", val |-> x]
Err(e) == [tag |-> "Err", err |-> e]
Panic(m) == [tag |-> "Panic", msg |-> m]
Unit == "()"

Max(a, b) == IF a >= b THEN a ELSE b
Min(a, b) == IF a <= b THEN a ELSE b

(***************************************************************************)
(* Values.  ValType is the enum matched in dummy_value; a Val carries its  *)
(* kind, its raw payload and, for a function reference, the store of the   *)
(* function (store 0: the value belongs to no store).                      *)
(***************************************************************************)
ValType ==
    {"I32", "I64", "F32", "F64", "V128", "AnyRef", "FuncRef",
     "S8", "U8", "S16", "U16", "S32", "U32", "S64", "U64", "String"}

MkVal(ty, bits, store) == [ty |-> ty, bits |-> bits, store |-> store]

Val_ty(val) == val.ty

\* ValType::get_wasmtime_type: the ABI type of a kind, None for the kinds that
\* have no single-slot representation.
get_wasmtime_type(ty) ==
    IF ty \in {"AnyRef", "FuncRef", "String"} THEN None ELSE Some(ty)

\* One 16-byte slot of the scratch buffer: lo is the part a value covers,
\* hi the bytes above it.
ZeroSlot == [lo |-> 0, hi |-> 0]

\* Val::write_value_to: the payload goes to the low bytes, the rest is kept.
write_value_to(val, slot) == [slot EXCEPT !.lo = val.bits]

\* Val::read_value_from: the low bytes, tagged with the declared type.
read_value_from(slot, ty) == MkVal(ty, slot.lo, 0)

(***************************************************************************)
(* dummy_value (dummy.rs:49-84)                                            *)
(***************************************************************************)
\* Variant: the I64 arm builds an I32.
dummy_value_WrongKind(val_ty) ==
    IF val_ty \in {"V128", "AnyRef", "FuncRef", "String"}
    THEN Err("dummy_value: unsupported function return type")
    ELSE Ok(MkVal(IF val_ty = "I64" THEN "I32" ELSE val_ty, 0, 0))

dummy_value(val_ty) ==
    CASE val_ty = "I32" -> Ok(MkVal("I32", 0, 0))
      [] val_ty = "I64" -> Ok(MkVal("I64", 0, 0))
      [] val_ty = "F32" -> Ok(MkVal("F32", 0, 0))
      [] val_ty = "F64" -> Ok(MkVal("F64", 0, 0))
      [] val_ty = "V128" -> Err("dummy_value: unsupported function return type")
      [] val_ty = "AnyRef" -> Err("dummy_value: unsupported function return type")
      [] val_ty = "FuncRef" -> Err("dummy_value: unsupported function return type")
      [] val_ty = "S8" -> Ok(MkVal("S8", 0, 0))
      [] val_ty = "U8" -> Ok(MkVal("U8", 0, 0))
      [] val_ty = "S16" -> Ok(MkVal("S16", 0, 0))
      [] val_ty = "U16" -> Ok(MkVal("U16", 0, 0))
      [] val_ty = "S32" -> Ok(MkVal("S32", 0, 0))
      [] val_ty = "U32" -> Ok(MkVal("U32", 0, 0))
      [] val_ty = "S64" -> Ok(MkVal("S64", 0, 0))
      [] val_ty = "U64" -> Ok(MkVal("U64", 0, 0))
      [] val_ty = "String" -> Err("dummy_value: unsupported function return type")

(***************************************************************************)
(* WasmtimeFn::call (callable.rs:117-176)                                  *)
(***************************************************************************)
\* The ABI descriptor of a reserved context slot (the first two of every
\* compiled signature's parameters).
VMContextType == "VMCTX"

\* signature.params.iter().skip(2)
param_tys(sig) == SubSeq(sig.params, 3, Len(sig.params))

ArityError(what, expected, got) ==
    [kind |-> "arity", what |-> what, expected |-> expected, got |-> got]

\* callable.rs:125-138.  Variant: the result buffer's length is not checked.
CheckArity_ParamsOnly(sig, params, results) ==
    IF Len(sig.params) - 2 # Len(params)
    THEN Err(ArityError("arguments", Len(sig.params) - 2, Len(params)))
    ELSE Ok(Unit)

CheckArity(sig, params, results) ==
    IF Len(sig.params) - 2 # Len(params)
    THEN Err(ArityError("arguments", Len(sig.params) - 2, Len(params)))
    ELSE IF Len(sig.returns) # Len(results)
    THEN Err(ArityError("results", Len(sig.returns), Len(results)))
    ELSE Ok(Unit)

\* callable.rs:140
NewValuesVec(params, results) ==
    [i \in 1..Max(Len(params), Len(results)) |-> ZeroSlot]

\* callable.rs:143-151: the three-way zip stops at the shortest sequence; the
\* first mistyped argument returns the error.
StoreArgs_Over(tys, params, values_vec) ==
    LET n == Min(Min(Len(params), Len(values_vec)), Len(tys))
    IN  IF \E i \in 1..n : get_wasmtime_type(Val_ty(params[i])) # Some(tys[i])
        THEN Err([kind |-> "argument type mismatch"])
        ELSE Ok([i \in 1..Len(values_vec) |->
                    IF i <= n THEN write_value_to(params[i], values_vec[i])
                    ELSE values_vec[i]])

\* Variant: one descriptor too many is skipped, so the zip ends one short.
StoreArgs_Skip3(sig, params, values_vec) ==
    StoreArgs_Over(SubSeq(sig.params, 4, Len(sig.params)), params, values_vec)

StoreArgs(sig, params, values_vec) ==
    StoreArgs_Over(param_tys(sig), params, values_vec)

\* callable.rs:154-164: the trampoline runs the callee on the scratch buffer.
\* The callee either faults or returns having written one slot per declared
\* result; a fault comes back as Err and is converted by Trap::from_jit.
wasmtime_call_trampoline(callee, values_vec) ==
    IF callee.fault
    THEN Err("jit error")
    ELSE Ok([i \in 1..Len(values_vec) |->
                IF i <= Len(callee.out) THEN callee.out[i] ELSE values_vec[i]])

\* Variant: the fault is unwrapped instead of converted.
Trap_from_jit_Unwrap(error) == Panic(error)

Trap_from_jit(error) == Err([kind |-> "trap", detail |-> error])

CallTrampoline(callee, values_vec) ==
    LET r == wasmtime_call_trampoline(callee, values_vec)
    IN  IF r.tag = "Err" THEN Trap_from_jit(r.err) ELSE r

\* callable.rs:167-173.  Variant: the slot pointer is not advanced by index.
LoadResults_FirstSlot(sig, values_vec, results) ==
    [index \in 1..Len(results) |->
        IF index <= Len(sig.returns)
        THEN read_value_from(values_vec[1], sig.returns[index])
        ELSE results[index]]

LoadResults(sig, values_vec, results) ==
    [index \in 1..Len(results) |->
        IF index <= Len(sig.returns)
        THEN read_value_from(values_vec[index], sig.returns[index])
        ELSE results[index]]

\* The whole of WasmtimeFn::call: what it returns, the result buffer it leaves,
\* whether the trampoline was invoked and the scratch buffer it used.
CallResult(ret, results, invoked, args_vec, values_vec) ==
    [ret |-> ret, results |-> results, invoked |-> invoked,
     args_vec |-> args_vec, values_vec |-> values_vec]

\* Variant: the results are read from the scratch buffer before the
\* trampoline's outcome is examined.
WasmtimeFn_call_LoadFirst(sig, params, results, callee) ==
    LET arity == CheckArity(sig, params, results)
        vec0 == NewValuesVec(params, results)
        stored == StoreArgs(sig, params, vec0)
        ran == CallTrampoline(callee, stored.val)
    IN  IF arity.tag # "Ok" THEN CallResult(arity, results, FALSE, <<>>, <<>>)
        ELSE IF stored.tag # "Ok" THEN CallResult(stored, results, FALSE, vec0, vec0)
        ELSE IF ran.tag # "Ok"
             THEN CallResult(ran, LoadResults(sig, stored.val, results), TRUE,
                             stored.val, stored.val)
        ELSE CallResult(Ok(Unit), LoadResults(sig, ran.val, results), TRUE,
                        stored.val, ran.val)

\* callable.rs:117-176
WasmtimeFn_call(sig, params, results, callee) ==
    LET arity == CheckArity(sig, params, results)
        vec0 == NewValuesVec(params, results)
        stored == StoreArgs(sig, params, vec0)
        ran == CallTrampoline(callee, stored.val)
    IN  IF arity.tag # "Ok" THEN CallResult(arity, results, FALSE, <<>>, <<>>)
        ELSE IF stored.tag # "Ok" THEN CallResult(stored, results, FALSE, vec0, vec0)
        ELSE IF ran.tag # "Ok"
             THEN CallResult(ran, results, TRUE, stored.val, stored.val)
        ELSE CallResult(Ok(Unit), LoadResults(sig, ran.val, results), TRUE,
                        stored.val, ran.val)

(***************************************************************************)
(* The host program around WasmtimeFn::call                                *)
(***************************************************************************)
SeqsUpTo(S, n) == UNION {[1..k -> S] : k \in 0..n}

\* ABI types the modelled signatures declare.
SigTypes == {"I32", "I64"}

Signatures ==
    {[params |-> <<VMContextType, VMContextType>> \o p, returns |-> r] :
        p \in SeqsUpTo(SigTypes, MaxParams), r \in SeqsUpTo(SigTypes, MaxResults)}

\* Arguments a host passes: integers of both widths and a function reference.
ArgVals == {MkVal("I32", MaxBits, 0), MkVal("I64", 0, 0), MkVal("FuncRef", 1, 1)}

\* What a freshly allocated result buffer holds.
ResultFill == {MkVal("AnyRef", 0, 0)}

\* The compiled callee: it faults, or writes one raw slot per declared result
\* (the bytes above the value are not zeroed).
CalleeSlots == {[lo |-> 0, hi |-> 1], [lo |-> 1, hi |-> 1]}

Callees(sig) ==
    {[fault |-> TRUE, out |-> <<>>]} \cup
    {[fault |-> FALSE, out |-> o] : o \in [1..Len(sig.returns) -> CalleeSlots]}

IdleCall ==
    [params |-> <<>>, results_in |-> <<>>, fault |-> FALSE, out |-> <<>>,
     ret |-> [tag |-> "Idle"], results |-> <<>>, invoked |-> FALSE,
     args_vec |-> <<>>, values_vec |-> <<>>]

RetKind(ret) ==
    IF ret.tag = "Err" THEN ret.err.kind ELSE ret.tag

IdleMarshal == [phase |-> "idle"]
IdleOp == [op |-> "idle", ret |-> [tag |-> "Idle"]]

Alive == call.ret.tag # "Panic"

\* How the most recent completed call returned.
LastReturn == IF call.ret.tag = "Idle" THEN prev ELSE RetKind(call.ret)

\* The host builds the argument list of its next call.
HostParams ==
    /\ Alive
    /\ host_params' \in SeqsUpTo(ArgVals, MaxParams)
    /\ host_params' # host_params
    /\ call' = IdleCall
    /\ prev' = LastReturn
    /\ UNCHANGED <<signature, host_results, marshal, globals, gop, tables, top,
                   memories, mop>>

\* The host allocates a result buffer.
HostResults ==
    /\ Alive
    /\ host_results' \in SeqsUpTo(ResultFill, MaxResults)
    /\ host_results' # host_results
    /\ call' = IdleCall
    /\ prev' = LastReturn
    /\ UNCHANGED <<signature, host_params, marshal, globals, gop, tables, top,
                   memories, mop>>

\* One host call through WasmtimeFn::call with the current arguments and buffer.
Call ==
    /\ Alive
    /\ \E callee \in Callees(signature) :
            LET r == WasmtimeFn_call(signature, host_params, host_results, callee)
            IN  /\ call' = [params |-> host_params, results_in |-> host_results,
                            fault |-> r.invoked /\ callee.fault,
                            out |-> IF r.invoked THEN callee.out ELSE <<>>,
                            ret |-> r.ret, results |-> r.results,
                            invoked |-> r.invoked,
                            args_vec |-> r.args_vec, values_vec |-> r.values_vec]
                /\ host_results' = r.results
    /\ prev' = LastReturn
    /\ UNCHANGED <<signature, host_params, marshal, globals, gop, tables, top,
                   memories, mop>>

InitCall ==
    /\ signature \in Signatures
    /\ host_params = <<>>
    /\ host_results = <<>>
    /\ call = IdleCall
    /\ prev = "Idle"
    /\ marshal = IdleMarshal
    /\ globals = <<>>
    /\ gop = IdleOp
    /\ tables = <<>>
    /\ top = IdleOp
    /\ memories = <<>>
    /\ mop = IdleOp

NextCall == HostParams \/ HostResults \/ Call

SpecCall == InitCall /\ [][NextCall]_vars

(***************************************************************************)
(* Properties of WasmtimeFn::call                                          *)
(***************************************************************************)
Returned == call.ret.tag # "Idle"

DeclaredParams == Len(signature.params) - 2

ArityMatches ==
    /\ Len(call.params) = DeclaredParams
    /\ Len(call.results_in) = Len(signature.returns)

IsErr(kind) == call.ret.tag = "Err" /\ call.ret.err.kind = kind

\* C1: a call whose number of arguments differs from the signature's parameter
\* count minus the two reserved slots, or whose result buffer length differs
\* from the signature's result count, returns an arity Trap and the trampoline
\* is not invoked.
C1_ArityMismatchIsTrap ==
    (Returned /\ ~ArityMatches) => (IsErr("arity") /\ ~call.invoked)

C1_Witness ==
    /\ IsErr("arity")
    /\ Len(call.params) = DeclaredParams
    /\ Len(call.results_in) > Len(signature.returns)

Mistyped(i) ==
    get_wasmtime_type(call.params[i].ty) # Some(signature.params[i + 2])

\* C2: a call of the right arity in which some argument's kind differs from the
\* declared type of its parameter (counted after the two reserved slots)
\* returns a type-mismatch Trap and the trampoline is not invoked.
C2_TypeMismatchIsTrap ==
    (Returned /\ ArityMatches /\ \E i \in 1..Len(call.params) : Mistyped(i))
        => (IsErr("argument type mismatch") /\ ~call.invoked)

C2_Witness ==
    /\ IsErr("argument type mismatch")
    /\ ArityMatches
    /\ \E i \in 1..Len(call.params) : call.params[i].ty = "I64" /\ Mistyped(i)

\* The callable accepts another call, and some arguments and buffer exist with
\* which a call of it returns Ok.
CanStillSucceed ==
    /\ ENABLED Call
    /\ \E p \in SeqsUpTo(ArgVals, MaxParams), r \in SeqsUpTo(ResultFill, MaxResults),
          callee \in Callees(signature) :
            WasmtimeFn_call(signature, p, r, callee).ret.tag = "Ok"

Failed == call.ret.tag \notin {"Idle", "Ok"}

\* C3: a guest fault reported by the trampoline comes back from call as an
\* Err(Trap), never as a panic; and after any failed call (arity, type, guest
\* fault) the callable can be called again and a well-formed call succeeds.
C3_FaultIsRecoverable ==
    /\ call.fault => IsErr("trap")
    /\ Failed => (call.ret.tag = "Err" /\ CanStillSucceed)

C3_Witness ==
    /\ prev = "trap"
    /\ call.ret.tag = "Ok"

\* C4: on a normal return result i is the value read from scratch slot i with
\* the i-th declared result type, in declared order; the scratch buffer has
\* max(param_count, result_count) slots; argument i occupied slot i alone.
C4_ResultsFromSlots ==
    call.ret.tag = "Ok" =>
        /\ Len(call.values_vec) = Max(DeclaredParams, Len(signature.returns))
        /\ Len(call.args_vec) = Len(call.values_vec)
        /\ \A i \in 1..Len(call.params) : call.args_vec[i].lo = call.params[i].bits
        /\ Len(call.results) = Len(signature.returns)
        /\ \A i \in 1..Len(signature.returns) :
              /\ call.values_vec[i] = call.out[i]
              /\ call.results[i] = MkVal(signature.returns[i], call.out[i].lo, 0)

C4_Witness ==
    /\ call.ret.tag = "Ok"
    /\ Len(call.results) = 2
    /\ DeclaredParams = 1
    /\ call.results[1].ty # call.results[2].ty
    /\ call.results[1].bits # call.results[2].bits

(***************************************************************************)
(* One value through one scratch slot: dummy_value, then the per-slot      *)
(* store of callable.rs:144-151, then the per-slot load of 167-173.        *)
(***************************************************************************)
Slots == [lo : 0..MaxBits, hi : 0..MaxBits]

NoVal == MkVal("none", 0, 0)

MarshalState(phase, ty, val, slot, back) ==
    [phase |-> phase, ty |-> ty, val |-> val, slot |-> slot, back |-> back]

\* dummy_value(&ty)
MakeDummy ==
    /\ marshal.phase = "start"
    /\ LET r == dummy_value(marshal.ty)
       IN  marshal' = IF r.tag = "Ok"
                      THEN [marshal EXCEPT !.phase = "made", !.val = r.val]
                      ELSE [marshal EXCEPT !.phase = "unsupported"]
    /\ UNCHANGED <<signature, host_params, host_results, call, prev, memories, mop,
                   globals, gop, tables, top>>

\* The value is stored into a slot declared with its own kind.
WriteSlot ==
    /\ marshal.phase = "made"
    /\ LET r == StoreArgs_Over(<<marshal.ty>>, <<marshal.val>>, <<marshal.slot>>)
       IN  marshal' = IF r.tag = "Ok"
                      THEN [marshal EXCEPT !.phase = "written", !.slot = r.val[1]]
                      ELSE [marshal EXCEPT !.phase = "mismatch"]
    /\ UNCHANGED <<signature, host_params, host_results, call, prev, memories, mop,
                   globals, gop, tables, top>>

\* The slot is loaded back with the same declared type.
ReadSlot ==
    /\ marshal.phase = "written"
    /\ LET sig == [params |-> <<VMContextType, VMContextType>>,
                   returns |-> <<marshal.ty>>]
       IN  marshal' = [marshal EXCEPT
                          !.phase = "read",
                          !.back = LoadResults(sig, <<marshal.slot>>, <<NoVal>>)[1]]
    /\ UNCHANGED <<signature, host_params, host_results, call, prev, memories, mop,
                   globals, gop, tables, top>>

InitMarshal ==
    /\ signature = [params |-> <<VMContextType, VMContextType>>, returns |-> <<>>]
    /\ host_params = <<>>
    /\ host_results = <<>>
    /\ call = IdleCall
    /\ prev = "Idle"
    /\ marshal \in {MarshalState("start", ty, NoVal, slot, NoVal) :
                        ty \in ValType, slot \in Slots}
    /\ globals = <<>>
    /\ gop = IdleOp
    /\ tables = <<>>
    /\ top = IdleOp
    /\ memories = <<>>
    /\ mop = IdleOp

NextMarshal == MakeDummy \/ WriteSlot \/ ReadSlot

SpecMarshal == InitMarshal /\ [][NextMarshal]_vars

Stores == 1..NumStores

\* Val::comes_from_same_store: only a function reference belongs to a store.
comes_from_same_store(val, store) == val.store = 0 \/ val.store = store

\* trampoline::generate_global_export: a one-off instance holding the cell.
generate_global_export(store, ty, val) == Ok(val.bits)

MkGlobal(store, ty, definition) ==
    [store |-> store, ty |-> ty, definition |-> definition]

\* Variant: the content type is not compared with the value's type.
Global_new_NoTypeCheck(store, ty, val) ==
    IF ~comes_from_same_store(val, store)
    THEN Err("cross-Store globals are not supported")
    ELSE Ok(MkGlobal(store, ty, generate_global_export(store, ty, val).val))

\* externals.rs:199-213
Global_new(store, ty, val) ==
    IF ~comes_from_same_store(val, store)
    THEN Err("cross-Store globals are not supported")
    ELSE IF Val_ty(val) # ty.content
    THEN Err("value provided does not match the type of this global")
    ELSE LET export == generate_global_export(store, ty, val)
         IN  IF export.tag # "Ok" THEN export
             ELSE Ok(MkGlobal(store, ty, export.val))

\* externals.rs:221-232
Global_get(g) ==
    CASE g.ty.content = "I32" -> Ok(MkVal("I32", g.definition, 0))
      [] g.ty.content = "I64" -> Ok(MkVal("I64", g.definition, 0))
      [] g.ty.content = "F32" -> Ok(MkVal("F32", g.definition, 0))
      [] g.ty.content = "F64" -> Ok(MkVal("F64", g.definition, 0))
      [] OTHER -> Panic("not implemented: Global::get")

SetResult(ret, g) == [ret |-> ret, g |-> g]

\* Variant: the store of the value is not compared with the global's.
Global_set_AnyStore(g, val) ==
    IF g.ty.mutability # "Var"
    THEN SetResult(Err("immutable global cannot be set"), g)
    ELSE IF Val_ty(val) # g.ty.content
    THEN SetResult(Err("global cannot be set to a value of this type"), g)
    ELSE SetResult(Ok(Unit), [g EXCEPT !.definition = val.bits])

\* externals.rs:240-265
Global_set(g, val) ==
    IF g.ty.mutability # "Var"
    THEN SetResult(Err("immutable global cannot be set"), g)
    ELSE IF Val_ty(val) # g.ty.content
    THEN SetResult(Err("global cannot be set to a value of this type"), g)
    ELSE IF ~comes_from_same_store(val, g.store)
    THEN SetResult(Err("cross-Store values are not supported"), g)
    ELSE IF Val_ty(val) \in {"I32", "I64", "F32", "F64"}
    THEN SetResult(Ok(Unit), [g EXCEPT !.definition = val.bits])
    ELSE SetResult(Panic("not implemented: Global::set"), g)

\* externals.rs:267-282: a global recovered from an instance's exports keeps
\* the content type and mutability the module declared.
Global_from_wasmtime_global(export, store) ==
    MkGlobal(store, export.ty, export.definition)

(***************************************************************************)
(* The host program around Global                                          *)
(***************************************************************************)
GlobalIds == {"g1"}

\* Content types the modelled hosts declare, and those a module can export.
GlobalKinds == {"I32", "F64", "S8", "FuncRef"}
ExportedKinds == {"I64", "V128"}
Mutabilities == {"Const", "Var"}

GlobalTypes == [content : GlobalKinds, mutability : Mutabilities]

GlobalVals ==
    {MkVal(k, b, 0) : k \in GlobalKinds \ {"FuncRef"}, b \in 0..MaxBits}
        \cup {MkVal("FuncRef", 1, s) : s \in Stores}
        \cup {MkVal("I64", 0, 0), MkVal("V128", 0, 0)}

GOp(op, id, store, ty, val, ret, before, count) ==
    [op |-> op, id |-> id, store |-> store, ty |-> ty, val |-> val, ret |-> ret,
     before |-> before, count |-> count]

GAlive == gop.ret.tag # "Panic"

AddTo(f, id, x) == [i \in DOMAIN f \cup {id} |-> IF i = id THEN x ELSE f[i]]

GlobalNew ==
    /\ GAlive
    /\ \E id \in GlobalIds \ DOMAIN globals, store \in Stores, ty \in GlobalTypes,
          val \in GlobalVals :
            LET r == Global_new(store, ty, val)
            IN  /\ globals' = IF r.tag = "Ok" THEN AddTo(globals, id, r.val)
                               ELSE globals
                /\ gop' = GOp("new", id, store, ty, val, [tag |-> r.tag], 0,
                              Cardinality(DOMAIN globals))
    /\ UNCHANGED <<signature, host_params, host_results, call, prev, marshal, memories, mop,
                   tables, top>>

GlobalFromExport ==
    /\ GAlive
    /\ \E id \in GlobalIds \ DOMAIN globals, store \in Stores,
          content \in ExportedKinds, mutability \in Mutabilities, bits \in 0..MaxBits :
            LET ty == [content |-> content, mutability |-> mutability]
                g == Global_from_wasmtime_global([ty |-> ty, definition |-> bits], store)
            IN  /\ globals' = AddTo(globals, id, g)
                /\ gop' = GOp("export", id, store, ty, NoVal, [tag |-> "Ok"], 0,
                              Cardinality(DOMAIN globals))
    /\ UNCHANGED <<signature, host_params, host_results, call, prev, marshal, memories, mop,
                   tables, top>>

GlobalGet ==
    /\ GAlive
    /\ \E id \in DOMAIN globals :
            gop' = GOp("get", id, globals[id].store, globals[id].ty, NoVal,
                       Global_get(globals[id]), globals[id].definition,
                       Cardinality(DOMAIN globals))
    /\ UNCHANGED <<signature, host_params, host_results, call, prev, marshal, memories, mop,
                   globals, tables, top>>

GlobalSet ==
    /\ GAlive
    /\ \E id \in DOMAIN globals, val \in GlobalVals :
            LET r == Global_set(globals[id], val)
            IN  /\ globals' = [globals EXCEPT ![id] = r.g]
                /\ gop' = GOp("set", id, globals[id].store, globals[id].ty, val,
                              r.ret, globals[id].definition,
                              Cardinality(DOMAIN globals))
    /\ UNCHANGED <<signature, host_params, host_results, call, prev, marshal, memories, mop,
                   tables, top>>

InitGlobal ==
    /\ signature = [params |-> <<VMContextType, VMContextType>>, returns |-> <<>>]
    /\ host_params = <<>>
    /\ host_results = <<>>
    /\ call = IdleCall
    /\ prev = "Idle"
    /\ marshal = IdleMarshal
    /\ globals = <<>>
    /\ gop = IdleOp
    /\ tables = <<>>
    /\ top = IdleOp
    /\ memories = <<>>
    /\ mop = IdleOp

NextGlobal == GlobalNew \/ GlobalFromExport \/ GlobalGet \/ GlobalSet

SpecGlobal == InitGlobal /\ [][NextGlobal]_vars

(***************************************************************************)
(* Properties of Global                                                    *)
(***************************************************************************)
WellTypedSet ==
    /\ gop.op = "set"
    /\ gop.val.ty = gop.ty.content
    /\ comes_from_same_store(gop.val, gop.store)

\* C6: on a mutable Global, set(v) with v of the content type and of the same
\* store succeeds and the next get() returns v; on an immutable Global the
\* same set(v) fails and get() still returns the value stored before.
C6_SetThenGet ==
    WellTypedSet =>
        IF gop.ty.mutability = "Var"
        THEN /\ gop.ret.tag = "Ok"
             /\ Global_get(globals[gop.id]) = Ok(gop.val)
        ELSE /\ gop.ret.tag = "Err"
             /\ globals[gop.id].definition = gop.before

\* C7: Global::new returns an error and creates no global whenever the type
\* of val differs from the content type of ty.
C7_NewRejectsWrongType ==
    (gop.op = "new" /\ gop.val.ty # gop.ty.content) =>
        /\ gop.ret.tag = "Err"
        /\ Cardinality(DOMAIN globals) = gop.count

C7_Witness ==
    /\ gop.op = "new"
    /\ gop.val.ty # gop.ty.content
    /\ comes_from_same_store(gop.val, gop.store)
    /\ gop.ret.tag = "Err"
    /\ globals = <<>>

(***************************************************************************)
(* Table (externals.rs:301-464).  A Table is its store, its TableType and  *)
(* the element vector of the runtime table in its instance; an element is  *)
(* a VMCallerCheckedAnyfunc (func_ptr 0: the null entry).                  *)
(***************************************************************************)
NullAnyfunc == [func_ptr |-> 0, vmctx |-> 0]

\* values::into_checked_anyfunc: a null reference or a function of the store.
into_checked_anyfunc(val, store) ==
    IF ~comes_from_same_store(val, store)
    THEN Err("cross-Store values are not supported")
    ELSE IF val.ty = "AnyRef" /\ val.bits = 0 THEN Ok(NullAnyfunc)
    ELSE IF val.ty = "FuncRef" THEN Ok([func_ptr |-> val.bits, vmctx |-> val.store])
    ELSE Err("val is not funcref")

\* values::from_checked_anyfunc
from_checked_anyfunc(item, store) ==
    IF item = NullAnyfunc THEN MkVal("AnyRef", 0, 0)
    ELSE MkVal("FuncRef", item.func_ptr, store)

\* InstanceHandle::table_get / table_set: bounds-checked element access.
table_get(elems, index) ==
    IF index >= 0 /\ index < Len(elems) THEN Some(elems[index + 1]) ELSE None

table_set(elems, index, item) ==
    IF index >= 0 /\ index < Len(elems)
    THEN Ok([elems EXCEPT ![index + 1] = item])
    ELSE Err(Unit)

\* InstanceHandle::table_grow: None when the declared maximum or the
\* allocator's limit would be exceeded; otherwise the vector is extended with
\* null entries and the new number of elements is returned.
GrowResult(ret, elems) == [ret |-> ret, elems |-> elems]

table_grow(elems, maximum, delta) ==
    LET new_len == Len(elems) + delta
    IN  IF (maximum.tag = "Some" /\ new_len > maximum.val) \/ new_len > MaxTableSize
        THEN GrowResult(None, elems)
        ELSE GrowResult(Some(new_len), elems \o [i \in 1..delta |-> NullAnyfunc])

\* trampoline::generate_table_export: a table of ty.limits().min() null entries.
generate_table_export(store, ty) == Ok([i \in 1..ty.min |-> NullAnyfunc])

\* externals.rs:308-317
set_table_item(elems, item_index, item) ==
    LET r == table_set(elems, item_index, item)
    IN  IF r.tag = "Err" THEN Err("table element index out of bounds") ELSE r

\* The loops of externals.rs:338-340 and 402-405: set_table_item on each
\* index in turn, the first error ending the loop.
RECURSIVE FillItems(_, _, _)
FillItems(elems, indices, item) ==
    IF indices = <<>> THEN GrowResult(Ok(Unit), elems)
    ELSE LET r == set_table_item(elems, Head(indices), item)
         IN  IF r.tag = "Err" THEN GrowResult(r, elems)
             ELSE FillItems(r.val, Tail(indices), item)

MkTable(store, ty, elems) == [store |-> store, ty |-> ty, elems |-> elems]

\* externals.rs:331-348
Table_new(store, ty, init) ==
    LET item == into_checked_anyfunc(init, store)
        export == generate_table_export(store, ty)
        filled == FillItems(export.val, [i \in 1..Len(export.val) |-> i - 1], item.val)
    IN  IF item.tag # "Ok" THEN item
        ELSE IF export.tag # "Ok" THEN export
        ELSE IF filled.ret.tag # "Ok" THEN filled.ret
        ELSE Ok(MkTable(store, ty, filled.elems))

\* externals.rs:385-387
Table_size(t) == Len(t.elems)

\* Variant: the Option from table_get is unwrapped.
Table_get_Unwrap(t, index) ==
    LET item == table_get(t.elems, index)
    IN  IF item.tag = "None" THEN Panic("called Option::unwrap() on a None value")
        ELSE Some(from_checked_anyfunc(item.val, t.store))

\* externals.rs:366-370
Table_get(t, index) ==
    LET item == table_get(t.elems, index)
    IN  IF item.tag = "None" THEN None
        ELSE Some(from_checked_anyfunc(item.val, t.store))

TableResult(ret, t) == [ret |-> ret, t |-> t]

\* externals.rs:378-382
Table_set(t, index, val) ==
    LET item == into_checked_anyfunc(val, t.store)
        r == set_table_item(t.elems, index, item.val)
    IN  IF item.tag # "Ok" THEN TableResult(item, t)
        ELSE IF r.tag # "Ok" THEN TableResult(r, t)
        ELSE TableResult(Ok(Unit), [t EXCEPT !.elems = r.val])

\* Variant: the new slots are left as the runtime created them.
Table_grow_NoFill(t, delta, init) ==
    LET item == into_checked_anyfunc(init, t.store)
        grown == table_grow(t.elems, t.ty.max, delta)
    IN  IF item.tag # "Ok" THEN TableResult(item, t)
        ELSE IF grown.ret.tag # "Some"
        THEN TableResult(Err("failed to grow table"), t)
        ELSE TableResult(Ok(grown.ret.val), [t EXCEPT !.elems = grown.elems])

\* Variant: the runtime table is grown without its declared maximum.
Table_grow_NoMax(t, delta, init) ==
    LET item == into_checked_anyfunc(init, t.store)
        grown == table_grow(t.elems, None, delta)
        len == grown.ret.val
        filled == FillItems(grown.elems, [i \in 1..delta |-> len - (delta - (i - 1))],
                            item.val)
    IN  IF item.tag # "Ok" THEN TableResult(item, t)
        ELSE IF grown.ret.tag # "Some"
        THEN TableResult(Err("failed to grow table"), t)
        ELSE TableResult(Ok(len), [t EXCEPT !.elems = filled.elems])

\* externals.rs:397-410
Table_grow(t, delta, init) ==
    LET item == into_checked_anyfunc(init, t.store)
        grown == table_grow(t.elems, t.ty.max, delta)
        len == grown.ret.val
        filled == FillItems(grown.elems, [i \in 1..delta |-> len - (delta - (i - 1))],
                            item.val)
    IN  IF item.tag # "Ok" THEN TableResult(item, t)
        ELSE IF grown.ret.tag # "Some"
        THEN TableResult(Err("failed to grow table"), t)
        ELSE IF filled.ret.tag # "Ok"
        THEN TableResult(filled.ret, [t EXCEPT !.elems = filled.elems])
        ELSE TableResult(Ok(len), [t EXCEPT !.elems = filled.elems])

(***************************************************************************)
(* The host program around Table                                           *)
(***************************************************************************)
TableIds == {"t1"}

TableElems == {"FuncRef", "AnyRef", "I32"}

TableLimits ==
    UNION {{[min |-> m, max |-> x] :
                x \in {None} \cup {Some(k) : k \in m..MaxTableSize}} : m \in 0..MaxMin}

TableTypes ==
    {[element |-> e, min |-> l.min, max |-> l.max] : e \in TableElems, l \in TableLimits}

TableVals ==
    {MkVal("AnyRef", 0, 0), MkVal("I32", 0, 0)}
        \cup {MkVal("FuncRef", 1, s) : s \in Stores}

TOp(op, id, ty, index, val, ret, size) ==
    [op |-> op, id |-> id, ty |-> ty, index |-> index, val |-> val, ret |-> ret,
     size |-> size]

TAlive == top.ret.tag # "Panic"

TableNew ==
    /\ TAlive
    /\ \E id \in TableIds \ DOMAIN tables, store \in Stores, ty \in TableTypes,
          init \in TableVals :
            LET r == Table_new(store, ty, init)
            IN  /\ tables' = IF r.tag = "Ok" THEN AddTo(tables, id, r.val) ELSE tables
                /\ top' = TOp("new", id, ty, 0, init, [tag |-> r.tag], 0)
    /\ UNCHANGED <<signature, host_params, host_results, call, prev, marshal, memories, mop,
                   globals, gop>>

TableGet ==
    /\ TAlive
    /\ \E id \in DOMAIN tables, index \in 0..MaxIndex :
            top' = TOp("get", id, tables[id].ty, index, NoVal,
                       Table_get(tables[id], index), Table_size(tables[id]))
    /\ UNCHANGED <<signature, host_params, host_results, call, prev, marshal, memories, mop,
                   globals, gop, tables>>

TableSet ==
    /\ TAlive
    /\ \E id \in DOMAIN tables, index \in 0..MaxIndex, val \in TableVals :
            LET r == Table_set(tables[id], index, val)
            IN  /\ tables' = [tables EXCEPT ![id] = r.t]
                /\ top' = TOp("set", id, tables[id].ty, index, val,
                              [tag |-> r.ret.tag], Table_size(tables[id]))
    /\ UNCHANGED <<signature, host_params, host_results, call, prev, marshal, memories, mop,
                   globals, gop>>

TableGrow ==
    /\ TAlive
    /\ \E id \in DOMAIN tables, delta \in 0..MaxDelta, init \in TableVals :
            LET r == Table_grow(tables[id], delta, init)
            IN  /\ tables' = [tables EXCEPT ![id] = r.t]
                /\ top' = TOp("grow", id, tables[id].ty, delta, init,
                              IF r.ret.tag = "Ok" THEN r.ret ELSE [tag |-> r.ret.tag],
                              Table_size(tables[id]))
    /\ UNCHANGED <<signature, host_params, host_results, call, prev, marshal, memories, mop,
                   globals, gop>>

InitTable ==
    /\ signature = [params |-> <<VMContextType, VMContextType>>, returns |-> <<>>]
    /\ host_params = <<>>
    /\ host_results = <<>>
    /\ call = IdleCall
    /\ prev = "Idle"
    /\ marshal = IdleMarshal
    /\ globals = <<>>
    /\ gop = IdleOp
    /\ tables = <<>>
    /\ top = IdleOp
    /\ memories = <<>>
    /\ mop = IdleOp

NextTable == TableNew \/ TableGet \/ TableSet \/ TableGrow

SpecTable == InitTable /\ [][NextTable]_vars

(***************************************************************************)
(* Properties of Table                                                     *)
(***************************************************************************)
\* C8: get(i) with i >= size() returns None, never an error or a panic; with
\* i < size() it returns the value stored in slot i.
C8_GetOutOfRangeIsNone ==
    top.op = "get" =>
        LET t == tables[top.id]
        IN  IF top.index >= Table_size(t)
            THEN top.ret = None
            ELSE top.ret = Some(from_checked_anyfunc(t.elems[top.index + 1], t.store))

C8_Witness ==
    /\ top.op = "get"
    /\ top.size = 2
    /\ top.index > 2
    /\ top.ret = None

\* C9: Table::new yields a table whose size() is the declared initial size and
\* whose every slot reads back init, and it fails if the type of init differs
\* from the element type declared in ty.
C9_NewFillsAndChecksType ==
    top.op = "new" =>
        /\ top.val.ty # top.ty.element => top.ret.tag = "Err"
        /\ top.ret.tag = "Ok" =>
              LET t == tables[top.id]
              IN  /\ Table_size(t) = top.ty.min
                  /\ \A i \in 0..(Table_size(t) - 1) : Table_get(t, i) = Some(top.val)

\* C10: a successful grow(delta, init) returns the size the table had before
\* the growth, and size() afterwards equals that value plus delta.
C10_GrowReturnsOldSize ==
    (top.op = "grow" /\ top.ret.tag = "Ok") =>
        /\ top.ret.val = top.size
        /\ Table_size(tables[top.id]) = top.ret.val + top.index

HasMax(t) == t.ty.max.tag = "Some"

SizeWithinMax ==
    \A id \in DOMAIN tables :
        HasMax(tables[id]) => Table_size(tables[id]) <= tables[id].ty.max.val

\* The step is a grow(delta, init) of a table with a declared maximum that
\* size() + delta exceeds.
GrowBeyondMax ==
    /\ top'.op = "grow"
    /\ top'.id \in DOMAIN tables
    /\ HasMax(tables[top'.id])
    /\ Table_size(tables[top'.id]) + top'.index > tables[top'.id].ty.max.val

\* C11: on a Table with a declared maximum, grow(delta, init) with
\* size() + delta above the maximum fails and leaves size() and every slot as
\* they were; in every reachable state size() is at most the declared maximum.
C11_GrowRespectsMax ==
    /\ []SizeWithinMax
    /\ [][GrowBeyondMax => (top'.ret.tag = "Err" /\ tables' = tables)]_vars

C11_Witness ==
    /\ top.op = "grow"
    /\ top.ret.tag = "Err"
    /\ HasMax(tables[top.id])
    /\ top.size + top.index > top.ty.max.val
    /\ into_checked_anyfunc(top.val, tables[top.id].store).tag = "Ok"
    /\ top.size = 2
    /\ tables[top.id].elems[1] # NullAnyfunc

(***************************************************************************)
(* Table::copy (externals.rs:412-449)                                      *)
(***************************************************************************)
\* wasmtime_runtime::Table::copy: both sub-ranges are bounds-checked before
\* any element moves; the elements are then moved as if through a buffer, so
\* that a table can be copied onto itself.
runtime_Table_copy(dst_elems, src_elems, dst_index, src_index, len) ==
    IF src_index + len > Len(src_elems) \/ dst_index + len > Len(dst_elems)
    THEN Err([kind |-> "trap", detail |-> "TableOutOfBounds"])
    ELSE Ok([i \in 1..Len(dst_elems) |->
                IF i - 1 >= dst_index /\ i - 1 < dst_index + len
                THEN src_elems[i - dst_index + src_index]
                ELSE dst_elems[i]])

\* Variant: the two indices change places in the call of the runtime's copy.
Table_copy_Swapped(dst_table, dst_index, src_table, src_index, len) ==
    LET r == runtime_Table_copy(dst_table.elems, src_table.elems, src_index,
                                dst_index, len)
    IN  IF dst_table.store # src_table.store
        THEN TableResult(Err("cross-Store table copies are not supported"), dst_table)
        ELSE IF r.tag # "Ok" THEN TableResult(r, dst_table)
        ELSE TableResult(Ok(Unit), [dst_table EXCEPT !.elems = r.val])

\* externals.rs:419-449.  Only the destination is written.
Table_copy(dst_table, dst_index, src_table, src_index, len) ==
    LET r == runtime_Table_copy(dst_table.elems, src_table.elems, dst_index,
                                src_index, len)
    IN  IF dst_table.store # src_table.store
        THEN TableResult(Err("cross-Store table copies are not supported"), dst_table)
        ELSE IF r.tag # "Ok" THEN TableResult(r, dst_table)
        ELSE TableResult(Ok(Unit), [dst_table EXCEPT !.elems = r.val])

(***************************************************************************)
(* A host program that creates two function tables and copies between them *)
(***************************************************************************)
CopyIds == {"t1", "t2"}

CopyTypes == {[element |-> "FuncRef", min |-> m, max |-> None] : m \in 1..2}

CopyVals == {MkVal("AnyRef", 0, 0)} \cup {MkVal("FuncRef", 1, s) : s \in Stores}

CopyOp(dst, dst_index, src, src_index, len, ret) ==
    [op |-> "copy", id |-> dst, index |-> dst_index, src |-> src,
     src_index |-> src_index, len |-> len, ret |-> ret]

CopyNew ==
    /\ TAlive
    /\ \E id \in CopyIds \ DOMAIN tables, store \in Stores, ty \in CopyTypes,
          init \in CopyVals :
            LET r == Table_new(store, ty, init)
            IN  /\ tables' = IF r.tag = "Ok" THEN AddTo(tables, id, r.val) ELSE tables
                /\ top' = TOp("new", id, ty, 0, init, [tag |-> r.tag], 0)
    /\ UNCHANGED <<signature, host_params, host_results, call, prev, marshal,
                   memories, mop, globals, gop>>

CopySet ==
    /\ TAlive
    /\ \E id \in DOMAIN tables, index \in 0..1, val \in CopyVals :
            LET r == Table_set(tables[id], index, val)
            IN  /\ tables' = [tables EXCEPT ![id] = r.t]
                /\ top' = TOp("set", id, tables[id].ty, index, val,
                              [tag |-> r.ret.tag], Table_size(tables[id]))
    /\ UNCHANGED <<signature, host_params, host_results, call, prev, marshal,
                   memories, mop, globals, gop>>

TableCopy ==
    /\ TAlive
    /\ \E dst \in DOMAIN tables, src \in DOMAIN tables :
        \E dst_index \in 0..(MaxDelta - 1), src_index \in 0..(MaxDelta - 1),
           len \in 0..MaxDelta :
            LET r == Table_copy(tables[dst], dst_index, tables[src], src_index, len)
            IN  /\ tables' = [tables EXCEPT ![dst] = r.t]
                /\ top' = CopyOp(dst, dst_index, src, src_index, len, r.ret)
    /\ UNCHANGED <<signature, host_params, host_results, call, prev, marshal,
                   memories, mop, globals, gop>>

NextCopy == CopyNew \/ CopySet \/ TableCopy

\* No object exists at the start, as in InitTable.
SpecCopy == InitTable /\ [][NextCopy]_vars

\* The step is a copy whose source or destination sub-range is out of range.
CopyOutOfRange ==
    /\ top'.op = "copy"
    /\ \/ top'.src_index + top'.len > Table_size(tables[top'.src])
       \/ top'.index + top'.len > Table_size(tables[top'.id])

\* C12: when src_index + len exceeds the size of the source, or
\* dst_index + len the size of the destination, copy fails and every slot of
\* both tables is as before: no part of the range is copied.
C12_CopyOutOfRangeIsAtomic ==
    [][CopyOutOfRange => (top'.ret.tag = "Err" /\ tables' = tables)]_vars

C12_Witness ==
    /\ top.op = "copy"
    /\ top.ret.tag = "Err"
    /\ top.id # top.src
    /\ tables[top.id].store = tables[top.src].store
    /\ top.src_index + top.len <= Table_size(tables[top.src])
    /\ top.index + top.len > Table_size(tables[top.id])
    /\ top.index < Table_size(tables[top.id])
    /\ tables[top.src].elems[top.src_index + 1] # tables[top.id].elems[top.index + 1]

(***************************************************************************)
(* A host program with two stores that works either on a global or on two  *)
(* tables, handing each operation items of either store.                   *)
(***************************************************************************)
CrossGlobal == top.op = "idle" /\ NextGlobal

CrossTable == gop.op = "idle" /\ NextCopy

NextCross == CrossGlobal \/ CrossTable

\* No object exists at the start, as in InitTable.
SpecCross == InitTable /\ [][NextCross]_vars

\* The last operation was Global::set with a value of another store.
ForeignSet ==
    /\ gop.op = "set"
    /\ ~comes_from_same_store(gop.val, gop.store)

\* The last operation was Table::copy between tables of different stores.
ForeignCopy ==
    /\ top.op = "copy"
    /\ tables[top.id].store # tables[top.src].store

\* C13: an operation that combines two items of different stores (Global::set
\* with a foreign value, Table::copy between tables of different stores) fails,
\* fails the same way when repeated, and changes the storage of neither item.
C13_CrossStoreFails ==
    /\ [](ForeignSet =>
            /\ gop.ret.tag = "Err"
            /\ Global_set(globals[gop.id], gop.val).ret = gop.ret
            /\ globals[gop.id].definition = gop.before)
    /\ [](ForeignCopy =>
            /\ top.ret.tag = "Err"
            /\ Table_copy(tables[top.id], top.index, tables[top.src], top.src_index,
                          top.len).ret = top.ret)
    /\ [][(top'.op = "copy" /\ tables[top'.id].store # tables[top'.src].store)
            => tables' = tables]_vars

C13_Witness ==
    /\ ForeignCopy
    /\ top.ret.tag = "Err"
    /\ top.len >= 1
    /\ top.src_index + top.len <= Table_size(tables[top.src])
    /\ top.index + top.len <= Table_size(tables[top.id])
    /\ tables[top.src].elems[top.src_index + 1] # tables[top.id].elems[top.index + 1]

(***************************************************************************)
(* Memory (externals.rs:466-621).  A Memory is its store, its MemoryType   *)
(* and the current_length, in bytes, of the VMMemoryDefinition in its      *)
(* instance.                                                               *)
(***************************************************************************)
WASM_PAGE_SIZE == 65536

\* trampoline::generate_memory_export: a one-off instance whose memory has
\* the declared minimum number of pages.
generate_memory_export(store, ty) ==
    IF ty.min > MaxPages THEN Err("memory allocation failed")
    ELSE Ok(ty.min * WASM_PAGE_SIZE)

\* InstanceHandle::memory_grow: None, with the memory untouched, when the
\* declared maximum would be exceeded or the allocator cannot satisfy the
\* request; otherwise the memory is extended and the page count before the
\* growth is returned.
memory_grow(current_length, maximum, delta) ==
    LET old_pages == current_length \div WASM_PAGE_SIZE
        new_pages == old_pages + delta
    IN  IF (maximum.tag = "Some" /\ new_pages > maximum.val) \/ new_pages > MaxPages
        THEN [ret |-> None, current_length |-> current_length]
        ELSE [ret |-> Some(old_pages), current_length |-> new_pages * WASM_PAGE_SIZE]

MkMemory(store, ty, current_length) ==
    [store |-> store, ty |-> ty, current_length |-> current_length]

\* externals.rs:500-509
Memory_new(store, ty) ==
    LET export == generate_memory_export(store, ty)
    IN  IF export.tag # "Ok" THEN Panic("generated memory")
        ELSE Ok(MkMemory(store, ty, export.val))

\* externals.rs:574-576
Memory_data_size(m) == m.current_length

\* Variant: the length in bytes is reported as the length in pages.
Memory_size_Bytes(m) == Memory_data_size(m)

\* externals.rs:579-581
Memory_size(m) == Memory_data_size(m) \div WASM_PAGE_SIZE

MemoryResult(ret, m) == [ret |-> ret, m |-> m]

\* Variant: a refused growth is reported as a success with the current size.
Memory_grow_NeverFails(m, delta) ==
    LET grown == memory_grow(m.current_length, m.ty.max, delta)
    IN  IF grown.ret.tag = "None" THEN MemoryResult(Ok(Memory_size(m)), m)
        ELSE MemoryResult(Ok(grown.ret.val),
                          [m EXCEPT !.current_length = grown.current_length])

\* Variant: the page count after the growth is returned.
Memory_grow_ReturnsNew(m, delta) ==
    LET grown == memory_grow(m.current_length, m.ty.max, delta)
    IN  IF grown.ret.tag = "None" THEN MemoryResult(Err("failed to grow memory"), m)
        ELSE MemoryResult(Ok(grown.ret.val + delta),
                          [m EXCEPT !.current_length = grown.current_length])

\* externals.rs:597-605
Memory_grow(m, delta) ==
    LET grown == memory_grow(m.current_length, m.ty.max, delta)
    IN  IF grown.ret.tag = "None" THEN MemoryResult(Err("failed to grow memory"), m)
        ELSE MemoryResult(Ok(grown.ret.val),
                          [m EXCEPT !.current_length = grown.current_length])

(***************************************************************************)
(* The host program around Memory                                          *)
(***************************************************************************)
MemoryIds == {"m1"}

\* A declared maximum may lie above what the allocator grants.
MemoryTypes ==
    UNION {{[min |-> m, max |-> x] :
                x \in {None} \cup {Some(k) : k \in m..(MaxPages + 1)}} : m \in 0..MaxMin}

\* pages, bytes: size() and data_size() before the operation.
MOp(op, id, ty, delta, ret, pages, bytes) ==
    [op |-> op, id |-> id, ty |-> ty, delta |-> delta, ret |-> ret,
     pages |-> pages, bytes |-> bytes]

MAlive == mop.ret.tag # "Panic"

MemoryNew ==
    /\ MAlive
    /\ \E id \in MemoryIds \ DOMAIN memories, store \in Stores, ty \in MemoryTypes :
            LET r == Memory_new(store, ty)
            IN  /\ memories' = IF r.tag = "Ok" THEN AddTo(memories, id, r.val)
                                ELSE memories
                /\ mop' = MOp("new", id, ty, 0, [tag |-> r.tag], 0, 0)
    /\ UNCHANGED <<signature, host_params, host_results, call, prev, marshal,
                   globals, gop, tables, top>>

MemorySize ==
    /\ MAlive
    /\ \E id \in DOMAIN memories :
            mop' = MOp("size", id, memories[id].ty, 0, Ok(Memory_size(memories[id])),
                       Memory_size(memories[id]), Memory_data_size(memories[id]))
    /\ UNCHANGED <<signature, host_params, host_results, call, prev, marshal,
                   globals, gop, tables, top, memories>>

MemoryGrow ==
    /\ MAlive
    /\ \E id \in DOMAIN memories, delta \in 0..MaxDelta :
            LET r == Memory_grow(memories[id], delta)
            IN  /\ memories' = [memories EXCEPT ![id] = r.m]
                /\ mop' = MOp("grow", id, memories[id].ty, delta, r.ret,
                              Memory_size(memories[id]), Memory_data_size(memories[id]))
    /\ UNCHANGED <<signature, host_params, host_results, call, prev, marshal,
                   globals, gop, tables, top>>

NextMemory == MemoryNew \/ MemorySize \/ MemoryGrow

\* No object exists at the start, as in InitTable.
SpecMemory == InitTable /\ [][NextMemory]_vars

(***************************************************************************)
(* Properties of Memory                                                    *)
(***************************************************************************)
\* The last operation was grow(delta) on a memory with a declared maximum.
GrowWithMax == mop.op = "grow" /\ mop.ty.max.tag = "Some"

FailedGrowChangesNothing ==
    (mop.op = "grow" /\ mop.ret.tag # "Ok") =>
        /\ Memory_size(memories[mop.id]) = mop.pages
        /\ Memory_data_size(memories[mop.id]) = mop.bytes

\* C14 as stated: on a Memory with declared maximum M pages, grow(delta)
\* succeeds whenever size() + delta <= M and fails whenever size() + delta > M;
\* a failed grow leaves size() and data_size() as they were.
C14_GrowSucceedsIffWithinMax ==
    /\ GrowWithMax => (mop.ret.tag = "Ok" <=> mop.pages + mop.delta <= mop.ty.max.val)
    /\ FailedGrowChangesNothing

\* C14, amended: on a Memory with declared maximum M pages, grow(delta) fails
\* whenever size() + delta > M, and succeeds whenever size() + delta <= M and
\* the allocator grants size() + delta pages; a failed grow leaves size() and
\* data_size() as they were.
C14_GrowSucceedsIffGranted ==
    /\ GrowWithMax =>
          /\ mop.pages + mop.delta > mop.ty.max.val => mop.ret.tag = "Err"
          /\ (mop.pages + mop.delta <= mop.ty.max.val /\ mop.pages + mop.delta <= MaxPages)
                => mop.ret.tag = "Ok"
    /\ FailedGrowChangesNothing

C14_Witness ==
    /\ GrowWithMax
    /\ mop.delta >= 1
    /\ mop.pages + mop.delta > mop.ty.max.val
    /\ mop.pages + mop.delta <= MaxPages
    /\ mop.pages > mop.ty.min
    /\ mop.ret.tag = "Err"

\* C15: a successful grow(delta) returns the page count before the growth,
\* and data_size() afterwards equals (returned value + delta) * page size.
C15_GrowReturnsOldPages ==
    (mop.op = "grow" /\ mop.ret.tag = "Ok") =>
        /\ mop.ret.val = mop.pages
        /\ Memory_data_size(memories[mop.id]) = (mop.ret.val + mop.delta) * WASM_PAGE_SIZE

C15_Witness ==
    /\ mop.op = "grow"
    /\ mop.ret.tag = "Ok"
    /\ mop.delta = 2
    /\ mop.pages = 1
    /\ mop.ty.min = 0
    /\ Memory_size(memories[mop.id]) = 3

\* C16: in every reachable state data_size() is a multiple of the page size
\* and size() = data_size() / page size; a Memory just built by Memory::new
\* has size() equal to the declared minimum.
C16_WholePages ==
    /\ \A id \in DOMAIN memories :
          /\ Memory_data_size(memories[id]) % WASM_PAGE_SIZE = 0
          /\ Memory_size(memories[id]) = Memory_data_size(memories[id]) \div WASM_PAGE_SIZE
    /\ (mop.op = "new" /\ mop.ret.tag = "Ok") =>
          Memory_size(memories[mop.id]) = mop.ty.min

C16_Witness ==
    /\ mop.op = "size"
    /\ mop.ty.min = 1
    /\ mop.ret = Ok(2)
    /\ Memory_data_size(memories[mop.id]) = 2 * WASM_PAGE_SIZE

(***************************************************************************)
(* Further properties of Table::grow, Global::get and WasmtimeFn::call     *)
(***************************************************************************)
\* C17: after a successful grow(delta, init) on a table of previous size n,
\* get(i) returns init for every i in n..n+delta-1 and every slot i < n holds
\* what it held before.
C17_GrowFillsNewSlots ==
    [][(top'.op = "grow" /\ top'.ret.tag = "Ok") =>
          LET n == Table_size(tables[top'.id])
              after == tables'[top'.id]
          IN  /\ \A i \in n..(n + top'.index - 1) : Table_get(after, i) = Some(top'.val)
              /\ \A i \in 0..(n - 1) : Table_get(after, i) = Table_get(tables[top'.id], i)]_vars

C17_Witness ==
    /\ top.op = "grow"
    /\ top.ret.tag = "Ok"
    /\ top.size = 1
    /\ top.index = 2
    /\ top.val.ty = "FuncRef"
    /\ Table_get(tables[top.id], 0) = Some(MkVal("AnyRef", 0, 0))
    /\ Table_get(tables[top.id], 2) = Some(top.val)

\* C18: for every Global that Global::new constructed, whatever content type
\* the constructor accepted (reference kinds included), get() returns a value
\* of the declared content type, equal to the initial value as long as no set
\* has happened; get() never fails.
C18_GetNeverFails ==
    /\ (gop.op = "new" /\ gop.ret.tag = "Ok") =>
          Global_get(globals[gop.id]) = Ok(gop.val)
    /\ (gop.op = "get" /\ gop.ty.content \in GlobalKinds) =>
          /\ gop.ret.tag = "Ok"
          /\ Val_ty(gop.ret.val) = gop.ty.content

\* C19: whenever call returns an error (arity, type mismatch or guest fault)
\* every entry of the caller's result buffer is what it was before the call;
\* the buffer is written only on a normal return.
C19_ErrorLeavesResults ==
    /\ (Returned /\ call.ret.tag # "Ok") =>
          (call.results = call.results_in /\ host_results = call.results_in)
    /\ (Returned /\ call.results # call.results_in) => call.ret.tag = "Ok"

C19_Witness ==
    /\ IsErr("trap")
    /\ call.invoked
    /\ Len(call.results_in) = 2
    /\ Len(call.params) = 1
    /\ call.values_vec[1].lo # 0
    /\ call.results = call.results_in

====
